---- MODULE Spec2Model ----
(***************************************************************************)
(* Verification model of the AI Smart Trip Planner clients.                *)
(*                                                                         *)
(* Part 1: the mobile session token-refresh coordinator (axios response    *)
(* interceptor, services/api.ts), the credential storage it shares with    *)
(* the auth store (store/authStore.ts), and the auth server it talks to.   *)
(*                                                                         *)
(* The clients run on a single-threaded event loop: every action below is  *)
(* one continuation, i.e. the code that runs from one `await` (or event)   *)
(* up to the next `await`.  Tokens are modelled by the generation number   *)
(* of the credential pair they were issued with (0 = no token).  A request *)
(* config is dropped once its promise settles, and a handler's locals once *)
(* the handler returns: the model resets them to their initial values.     *)
(*                                                                         *)
(* Part 2: the web chat component (components/TravelChat.tsx): its React   *)
(* state, the extraction and planning requests it has in flight, and the   *)
(* chat endpoint that answers them.  An event handler runs against the     *)
(* state of the last render; a request in flight carries the values its    *)
(* closure captured.                                                       *)
(***************************************************************************)
EXTENDS Integers, Sequences, FiniteSets, TLC

\* ---------------------------------------------------------------- bounds
NReq == 3          \* number of API requests issued through the client
MaxGen == 2        \* number of credential pairs the auth server issues
NSessReq == 2      \* requests issued in the runs that include login and logout
MaxSends == 2      \* utterances sent to the chat endpoint
MaxPlans == 2      \* planning requests sent to the chat endpoint
MaxFlights == 2    \* flights in a result list handed to the results screen
MaxHotels == 1     \* hotels in a result list handed to the results screen
NGoals == 2        \* distinct search parameters entered in a search screen
MaxStops == 2      \* stops of a scored candidate
MaxNotifs == 3     \* notifications held by a notification store
NIds == 2          \* distinct notification ids
MaxUnread == 4     \* largest unreadCount from which a notification is still added
MaxSockets == 3    \* sockets the socket service creates
NCallbacks == 2    \* callbacks registered with the socket service

Req == 1..NReq
Tok == 0..MaxGen   \* 0 is "no token"

VARIABLES
  \* services/api.ts
  isRefreshing,    \* module flag
  failedQueue,     \* module queue of waiters (requests, in push order)
  rpc,             \* per request: where its promise chain stands
  hdr,             \* per request: Authorization header (token generation)
  retry,           \* per request: originalRequest._retry
  rtok,            \* per handler: local `refreshToken`
  ntok,            \* per handler: local `newAccessToken`/`newRefreshToken`
  \* AsyncStorage
  storAT, storRT, storUser,
  \* auth server
  issued,          \* last credential generation issued
  expiredUpTo,     \* access tokens of generation <= expiredUpTo are expired
  \* store/authStore.ts
  isAuthenticated, loginPc, loginGen, logoutPc, restored,
  \* history variables (observation only)
  refreshCalls,    \* number of refresh calls sent to the auth service
  reissued,        \* per request: the coordinator has reissued it
  lastDrain,       \* last processQueue call: <<"resolve" or "reject", waiters visited>>
  waitOrder,       \* order in which the waiting requests received their 401
  burst,           \* every request first sent so far carried the token of generation 1
  failsSinceLogin, \* refresh failures since a login last stored credentials
  loggedOut,       \* logout() completed and no login has stored anything since
  \* components/TravelChat.tsx
  messages,        \* roles of the chat messages, in order
  input,           \* text box: "" (empty), "blank" (whitespace only) or "text"
  loading, planning, paramsComplete, isListening,
  extractedParams, \* field -> 0 (absent / null) or 1 (present)
  voiceParams,     \* extractedParams captured by the running recognition's handler
  extractReqs,     \* extraction requests in flight (their extracted_params)
  planReqs,        \* planning requests in flight (their extracted_params)
  sends, plans,    \* history: requests sent so far
  supplied,        \* history: the fields supplied by the turn answered last
  snaps,           \* history, per extraction request in flight: <<number of
                   \* messages, extractedParams, paramsComplete>> before its
                   \* send, and the text sent
  emptyRejected,   \* history: an empty utterance was refused since the last send
  \* store/searchStore.ts (mobile)
  flightSearchParams, \* 0 (null) or the goals searched for
  flightResults,      \* list of flights
  isSearchingFlights, flightError,
  hotelSearchParams, hotelResults, isSearchingHotels, hotelError,
  \* FlightSearchScreen / HotelSearchScreen: handleSearch calls awaiting their
  \* response (the goals each was called with)
  flightSearches, hotelSearches,
  \* FlightResultsScreen / HotelResultsScreen
  flightSortBy, hotelSortBy,
  \* history: the goals the stored results were produced for (0 = none)
  flightResultsFor, hotelResultsFor,
  \* goal-based scoring: the goal profile, the candidate last scored, its
  \* evaluation, and whether the evaluation is of this candidate and profile
  goalProfile, candidate, evaluation, evaluated,
  \* scripts/build.sh, per retry loop running
  bpc,             \* where the loop stands
  attempt,         \* local attempt
  wait_time,       \* local wait_time
  status,          \* return status: "none" while running, 0 or 1
  tries,           \* history: outcomes of the commands run, in order
  slept,           \* history: the waits slept, in order
  \* frontend store/notificationStore.ts
  webNotifications, webUnreadCount,
  \* mobile store/notificationStore.ts
  mobNotifications, mobUnreadCount,
  \* frontend services/websocketService.ts
  socket,          \* this.socket: 0 (null) or the socket held
  sock,            \* per socket created by io(): its connection state
  listeners,       \* this.listeners: event -> set of callbacks
  deliveries,      \* history: calls of each callback for the last server event
  lastEvent        \* history: the last server event received

coordVars == <<isRefreshing, failedQueue, rpc, hdr, retry, rtok, ntok>>
storVars == <<storAT, storRT, storUser>>
serverVars == <<issued, expiredUpTo>>
authVars == <<isAuthenticated, loginPc, loginGen, logoutPc, restored>>
histVars == <<refreshCalls, reissued, lastDrain, waitOrder, burst,
              failsSinceLogin, loggedOut>>
mobileVars == <<coordVars, storVars, serverVars, authVars, histVars>>
chatVars == <<messages, input, loading, planning, paramsComplete, isListening,
              extractedParams, voiceParams, extractReqs, planReqs, sends, plans,
              supplied, snaps, emptyRejected>>
searchVars == <<flightSearchParams, flightResults, isSearchingFlights, flightError,
                hotelSearchParams, hotelResults, isSearchingHotels, hotelError,
                flightSearches, hotelSearches, flightSortBy, hotelSortBy,
                flightResultsFor, hotelResultsFor>>
scoreVars == <<goalProfile, candidate, evaluation, evaluated>>
buildVars == <<bpc, attempt, wait_time, status, tries, slept>>
webNotifVars == <<webNotifications, webUnreadCount>>
mobNotifVars == <<mobNotifications, mobUnreadCount>>
wsVars == <<socket, sock, listeners, deliveries, lastEvent>>
otherVars == <<buildVars, webNotifVars, mobNotifVars, wsVars>>
vars == <<mobileVars, chatVars, searchVars, scoreVars, otherVars>>

\* ------------------------------------------------------------- helpers
\* The server accepts an access token iff it exists and has not expired.
Valid(t) == t # 0 /\ t > expiredUpTo

Range(s) == {s[i] : i \in 1..Len(s)}

\* Variant: processQueue rejects the first waiter only.
M_RejectedBy(queue, r) == queue # <<>> /\ r = queue[1]

\* processQueue(error, null): every waiter's reject is called.
RejectedBy(queue, r) == r \in Range(queue)

\* Variant: the waiters are visited last-in first-out.
M_DrainOrder(queue) == [i \in 1..Len(queue) |-> queue[Len(queue) + 1 - i]]

\* Order in which processQueue(null, token) visits the waiters (forEach).
DrainOrder(queue) == queue

\* failedQueue.push(waiter)
Push(queue, r) == Append(queue, r)

\* Variant: the failure path leaves the refresh token in storage.
M_FailureRemoves == {"AUTH_TOKEN", "USER_DATA"}

\* The keys removed by the failure path's AsyncStorage.multiRemove.
FailureRemoves == {"AUTH_TOKEN", "REFRESH_TOKEN", "USER_DATA"}

\* The fields the chat endpoint requires before planning.
Fields == {"origin", "destination", "departure_date", "passengers"}
Params == [Fields -> {0, 1}]
NoParams == [f \in Fields |-> 0]

\* Scores and weights are kept in hundredths, rounded down: Scale is 1.0.
\* totalUtility, a sum of products, is kept in units of 1 / (Scale * Scale).
Scale == 100

\* The tolerance of the weight validation, in hundredths.
Epsilon == 1

Components == {"price", "duration", "stops"}

DefaultWeights == [price |-> 50, duration |-> 20, stops |-> 30]

\* budgetMax = 0 and preferredDuration = 0 stand for "not set".
DefaultGoalProfile ==
  [budgetMax |-> 0, preferredDuration |-> 0, weights |-> DefaultWeights]

NoEvaluation ==
  [price_score |-> 0, duration_score |-> 0, stops_score |-> 0, total_utility |-> 0,
   budget_constraint_met |-> TRUE, recommendation |-> "poor"]

\* scripts/build.sh
MAX_RETRIES == 3

\* The retry loops main runs: three pull_with_retry in the background, then,
\* after `wait`, build_with_retry.
Pulls == {"pull_python", "pull_node", "pull_nginx"}
Loops == Pulls \cup {"build"}

PULL_WAIT == 2
BUILD_WAIT == 4

\* local wait_time=2 in pull_with_retry, local wait_time=4 in build_with_retry
InitialWait(p) == IF p \in Pulls THEN PULL_WAIT ELSE BUILD_WAIT

\* frontend services/websocketService.ts
Sockets == 1..MaxSockets
Callbacks == 1..NCallbacks

\* The events the service registers a handler of its own for, and one it
\* does not.
NamedEvents == {"notification", "price_update", "booking_update", "chat_message"}
Events == {"notification", "custom"}

\* ---------------------------------------------------------------- Init
Init ==
  /\ isRefreshing = FALSE
  /\ failedQueue = <<>>
  /\ rpc = [r \in Req |-> "new"]
  /\ hdr = [r \in Req |-> 0]
  /\ retry = [r \in Req |-> FALSE]
  /\ rtok = [r \in Req |-> 0]
  /\ ntok = [r \in Req |-> 0]
  \* storage survives restarts: either empty or the session of a previous run
  /\ \E g \in {0, 1} :
       /\ storAT = g /\ storRT = g /\ storUser = (g = 1)
       /\ issued = g
  /\ expiredUpTo = 0
  /\ isAuthenticated = FALSE
  /\ loginPc = "idle"
  /\ loginGen = 0
  /\ logoutPc = "idle"
  /\ restored = FALSE
  /\ refreshCalls = 0
  /\ reissued = [r \in Req |-> FALSE]
  /\ lastDrain = <<"none", <<>>>>
  /\ waitOrder = <<>>
  /\ burst = TRUE
  /\ failsSinceLogin = 0
  /\ loggedOut = FALSE
  /\ messages = <<"assistant">>
  /\ input = ""
  /\ loading = FALSE
  /\ planning = FALSE
  /\ paramsComplete = FALSE
  /\ isListening = FALSE
  /\ extractedParams = NoParams
  /\ voiceParams = NoParams
  /\ extractReqs = <<>>
  /\ planReqs = <<>>
  /\ sends = 0
  /\ plans = 0
  /\ supplied = {}
  /\ snaps = <<>>
  /\ emptyRejected = FALSE
  /\ flightSearchParams = 0
  /\ flightResults = <<>>
  /\ isSearchingFlights = FALSE
  /\ flightError = FALSE
  /\ hotelSearchParams = 0
  /\ hotelResults = <<>>
  /\ isSearchingHotels = FALSE
  /\ hotelError = FALSE
  /\ flightSearches = {}
  /\ hotelSearches = {}
  /\ flightSortBy = "score"
  /\ hotelSortBy = "score"
  /\ flightResultsFor = 0
  /\ hotelResultsFor = 0
  /\ goalProfile = DefaultGoalProfile
  /\ candidate = [price |-> 450, has_duration |-> TRUE, duration |-> 300,
                  stops |-> 0, price_rank |-> 0, duration_rank |-> 0]
  /\ evaluation = NoEvaluation
  /\ evaluated = FALSE
  /\ bpc = [p \in Loops |-> IF p \in Pulls THEN "test" ELSE "waiting"]
  /\ attempt = [p \in Loops |-> 1]
  /\ wait_time = [p \in Loops |-> InitialWait(p)]
  /\ status = [p \in Loops |-> 0 - 1]
  /\ tries = [p \in Loops |-> <<>>]
  /\ slept = [p \in Loops |-> <<>>]
  /\ webNotifications = <<>>
  /\ webUnreadCount = 0
  /\ mobNotifications = <<>>
  /\ mobUnreadCount = 0
  /\ socket = 0
  /\ sock = [s \in Sockets |-> "none"]
  /\ listeners = [e \in Events |-> {}]
  /\ deliveries = [cb \in Callbacks |-> 0]
  /\ lastEvent = "none"

\* ------------------------------------------------------ services/api.ts
\* A caller invokes api(config).  Requests are numbered in call order.
IssueRequest(r) ==
  /\ rpc[r] = "new"
  /\ \A q \in Req : q < r => rpc[q] # "new"
  /\ rpc' = [rpc EXCEPT ![r] = "attach"]
  /\ UNCHANGED <<isRefreshing, failedQueue, hdr, retry, rtok, ntok>>
  /\ UNCHANGED <<storVars, serverVars, authVars, histVars>>
  /\ UNCHANGED <<chatVars, searchVars, scoreVars, otherVars>>

\* Request interceptor: read AUTH_TOKEN, attach it when present, send.
AttachCredential(r) ==
  /\ rpc[r] = "attach"
  /\ hdr' = [hdr EXCEPT ![r] = IF storAT # 0 THEN storAT ELSE @]
  /\ rpc' = [rpc EXCEPT ![r] = "sent"]
  /\ burst' = IF reissued[r] THEN burst ELSE (burst /\ hdr'[r] = 1)
  /\ UNCHANGED <<isRefreshing, failedQueue, retry, rtok, ntok>>
  /\ UNCHANGED <<storVars, serverVars, authVars>>
  /\ UNCHANGED <<refreshCalls, reissued, lastDrain, waitOrder,
                 failsSinceLogin, loggedOut>>
  /\ UNCHANGED <<chatVars, searchVars, scoreVars, otherVars>>

\* Response interceptor, success branch: (response) => response.
RespondOK(r) ==
  /\ rpc[r] = "sent"
  /\ Valid(hdr[r])
  /\ rpc' = [rpc EXCEPT ![r] = "done"]
  /\ hdr' = [hdr EXCEPT ![r] = 0]
  /\ retry' = [retry EXCEPT ![r] = FALSE]
  /\ UNCHANGED <<isRefreshing, failedQueue, rtok, ntok>>
  /\ UNCHANGED <<storVars, serverVars, authVars, histVars>>
  /\ UNCHANGED <<chatVars, searchVars, scoreVars, otherVars>>

\* Response interceptor, error branch with a status other than 401
\* (network error, timeout, 5xx): return Promise.reject(error).
RespondError(r) ==
  /\ rpc[r] = "sent"
  /\ rpc' = [rpc EXCEPT ![r] = "rejected"]
  /\ hdr' = [hdr EXCEPT ![r] = 0]
  /\ retry' = [retry EXCEPT ![r] = FALSE]
  /\ UNCHANGED <<isRefreshing, failedQueue, rtok, ntok>>
  /\ UNCHANGED <<storVars, serverVars, authVars, histVars>>
  /\ UNCHANGED <<chatVars, searchVars, scoreVars, otherVars>>

\* Variant: a 401 starts a refresh whether or not one is in progress.
M_MayStartRefresh == TRUE

\* The guard under which a 401 starts a refresh instead of waiting.
MayStartRefresh == ~isRefreshing

\* Response interceptor, error branch with status 401, up to the first await.
Respond401(r) ==
  /\ rpc[r] = "sent"
  /\ ~Valid(hdr[r])
  /\ IF retry[r]
     THEN \* falls through to return Promise.reject(error)
          /\ rpc' = [rpc EXCEPT ![r] = "rejected"]
          /\ retry' = [retry EXCEPT ![r] = FALSE]
          /\ UNCHANGED <<isRefreshing, failedQueue, waitOrder>>
     ELSE IF ~MayStartRefresh
     THEN \* wait for the refresh in progress
          /\ failedQueue' = Push(failedQueue, r)
          /\ waitOrder' = Append(waitOrder, r)
          /\ rpc' = [rpc EXCEPT ![r] = "queued"]
          /\ UNCHANGED <<isRefreshing, retry>>
     ELSE \* start a refresh: await AsyncStorage.getItem(REFRESH_TOKEN)
          /\ retry' = [retry EXCEPT ![r] = TRUE]
          /\ isRefreshing' = TRUE
          /\ rpc' = [rpc EXCEPT ![r] = "h_getRT"]
          /\ UNCHANGED <<failedQueue, waitOrder>>
  \* the header that was refused is not read again: it is overwritten before
  \* the request is reissued
  /\ hdr' = [hdr EXCEPT ![r] = 0]
  /\ UNCHANGED <<rtok, ntok>>
  /\ UNCHANGED <<storVars, serverVars, authVars>>
  /\ UNCHANGED <<refreshCalls, reissued, lastDrain, burst,
                 failsSinceLogin, loggedOut>>
  /\ UNCHANGED <<chatVars, searchVars, scoreVars, otherVars>>

\* catch (refreshError), up to `await AsyncStorage.multiRemove`:
\* processQueue(refreshError, null) rejects every waiter and empties the queue.
CatchRefreshError(r) ==
  /\ rpc' = [q \in Req |->
               IF q = r THEN "h_clear"
               ELSE IF RejectedBy(failedQueue, q) THEN "rejected"
               ELSE rpc[q]]
  /\ UNCHANGED hdr
  /\ failedQueue' = <<>>
  /\ waitOrder' = <<>>
  /\ failsSinceLogin' = failsSinceLogin + 1
  /\ lastDrain' = <<"reject", failedQueue>>

\* getItem(REFRESH_TOKEN) resolved: throw when absent, else post the refresh.
HandlerGotRefreshToken(r) ==
  /\ rpc[r] = "h_getRT"
  /\ IF storRT = 0
     THEN /\ CatchRefreshError(r)
          /\ UNCHANGED <<rtok, refreshCalls>>
     ELSE /\ rtok' = [rtok EXCEPT ![r] = storRT]
          /\ rpc' = [rpc EXCEPT ![r] = "h_post"]
          /\ refreshCalls' = refreshCalls + 1
          /\ UNCHANGED <<failedQueue, waitOrder, failsSinceLogin, hdr, lastDrain>>
  /\ UNCHANGED <<isRefreshing, retry, ntok>>
  /\ UNCHANGED <<storVars, serverVars, authVars>>
  /\ UNCHANGED <<reissued, burst, loggedOut>>
  /\ UNCHANGED <<chatVars, searchVars, scoreVars, otherVars>>

\* The refresh call resolved: data = {accessToken, refreshToken};
\* await AsyncStorage.setItem(AUTH_TOKEN, newAccessToken) is issued.
RefreshSucceeds(r) ==
  /\ rpc[r] = "h_post"
  /\ issued < MaxGen
  /\ issued' = issued + 1
  /\ ntok' = [ntok EXCEPT ![r] = issued + 1]
  /\ rpc' = [rpc EXCEPT ![r] = "h_setAT"]
  /\ UNCHANGED <<isRefreshing, failedQueue, hdr, retry, rtok>>
  /\ UNCHANGED <<storVars, expiredUpTo, authVars, histVars>>
  /\ UNCHANGED <<chatVars, searchVars, scoreVars, otherVars>>

\* The refresh call rejected (invalid refresh token, network error, timeout).
RefreshFails(r) ==
  /\ rpc[r] = "h_post"
  /\ CatchRefreshError(r)
  /\ UNCHANGED <<isRefreshing, retry, rtok, ntok>>
  /\ UNCHANGED <<storVars, serverVars, authVars>>
  /\ UNCHANGED <<refreshCalls, reissued, burst,
                 loggedOut>>
  /\ UNCHANGED <<chatVars, searchVars, scoreVars, otherVars>>

\* setItem(AUTH_TOKEN) resolved; await setItem(REFRESH_TOKEN, ...) is issued.
HandlerStoredAccess(r) ==
  /\ rpc[r] = "h_setAT"
  /\ storAT' = ntok[r]
  /\ rpc' = [rpc EXCEPT ![r] = "h_setRT"]
  /\ UNCHANGED <<isRefreshing, failedQueue, hdr, retry, rtok, ntok>>
  /\ UNCHANGED <<storRT, storUser, serverVars, authVars, histVars>>
  /\ UNCHANGED <<chatVars, searchVars, scoreVars, otherVars>>

\* setItem(REFRESH_TOKEN) resolved: set the header, processQueue(null, token)
\* reissued every waiter, the handler reissued its own request, and the
\* finally block clears isRefreshing.
HandlerStoredRefresh(r) ==
  /\ rpc[r] = "h_setRT"
  /\ storRT' = ntok[r]
  /\ LET order == DrainOrder(failedQueue)
         again == Range(order) \cup {r}
     IN /\ hdr' = [q \in Req |-> IF q \in again THEN ntok[r] ELSE hdr[q]]
        /\ rpc' = [q \in Req |-> IF q \in again THEN "attach" ELSE rpc[q]]
        /\ reissued' = [q \in Req |-> q \in again \/ reissued[q]]
        /\ lastDrain' = <<"resolve", order>>
  /\ failedQueue' = <<>>
  /\ waitOrder' = <<>>
  /\ isRefreshing' = FALSE
  /\ rtok' = [rtok EXCEPT ![r] = 0]
  /\ ntok' = [ntok EXCEPT ![r] = 0]
  /\ UNCHANGED retry
  /\ UNCHANGED <<storAT, storUser, serverVars, authVars>>
  /\ UNCHANGED <<refreshCalls, burst, failsSinceLogin, loggedOut>>
  /\ UNCHANGED <<chatVars, searchVars, scoreVars, otherVars>>

\* multiRemove resolved: return Promise.reject(refreshError); finally.
HandlerCleared(r) ==
  /\ rpc[r] = "h_clear"
  /\ storAT' = IF "AUTH_TOKEN" \in FailureRemoves THEN 0 ELSE storAT
  /\ storRT' = IF "REFRESH_TOKEN" \in FailureRemoves THEN 0 ELSE storRT
  /\ storUser' = IF "USER_DATA" \in FailureRemoves THEN FALSE ELSE storUser
  /\ rpc' = [rpc EXCEPT ![r] = "rejected"]
  /\ isRefreshing' = FALSE
  /\ UNCHANGED hdr
  /\ retry' = [retry EXCEPT ![r] = FALSE]
  /\ rtok' = [rtok EXCEPT ![r] = 0]
  /\ UNCHANGED <<failedQueue, ntok>>
  /\ UNCHANGED <<serverVars, authVars, histVars>>
  /\ UNCHANGED <<chatVars, searchVars, scoreVars, otherVars>>

\* ----------------------------------------------------------- auth server
\* Every access token issued so far expires.
ExpireTokens ==
  /\ expiredUpTo < issued
  /\ expiredUpTo' = issued
  /\ UNCHANGED <<coordVars, storVars, issued, authVars, histVars>>
  /\ UNCHANGED <<chatVars, searchVars, scoreVars, otherVars>>

\* ------------------------------------------------------ store/authStore.ts
\* login(credentials) / register(data): both run the same steps.  The call
\* to the auth service is pending.  The root navigator mounts the auth
\* screens only once the session check is over and while !isAuthenticated.
LoginStart ==
  /\ restored
  /\ ~isAuthenticated
  /\ loginPc = "idle"
  /\ loginPc' = "call"
  /\ UNCHANGED <<coordVars, storVars, serverVars>>
  /\ UNCHANGED <<isAuthenticated, loginGen, logoutPc, restored>>
  /\ UNCHANGED <<refreshCalls, reissued, lastDrain, waitOrder, burst,
                 failsSinceLogin, loggedOut>>
  /\ UNCHANGED <<chatVars, searchVars, scoreVars, otherVars>>

\* The auth service answered {user, tokens}; setItem(AUTH_TOKEN) is issued.
LoginResponse ==
  /\ loginPc = "call"
  /\ issued < MaxGen
  /\ issued' = issued + 1
  /\ loginGen' = issued + 1
  /\ loginPc' = "setAT"
  /\ UNCHANGED <<coordVars, storVars, expiredUpTo, histVars>>
  /\ UNCHANGED <<isAuthenticated, logoutPc, restored>>
  /\ UNCHANGED <<chatVars, searchVars, scoreVars, otherVars>>

\* The auth service call threw: set({error, isLoading: false}); rethrow.
LoginRejected ==
  /\ loginPc = "call"
  /\ loginPc' = "idle"
  /\ UNCHANGED <<coordVars, storVars, serverVars, histVars>>
  /\ UNCHANGED <<isAuthenticated, loginGen, logoutPc, restored>>
  /\ UNCHANGED <<chatVars, searchVars, scoreVars, otherVars>>

\* setItem(AUTH_TOKEN) resolved; setItem(REFRESH_TOKEN) is issued.
LoginStoredAccess ==
  /\ loginPc = "setAT"
  /\ storAT' = loginGen
  /\ loginPc' = "setRT"
  /\ loggedOut' = FALSE
  /\ UNCHANGED <<coordVars, storRT, storUser, serverVars>>
  /\ UNCHANGED <<isAuthenticated, loginGen, logoutPc, restored>>
  /\ UNCHANGED <<refreshCalls, reissued, lastDrain, waitOrder, burst,
                 failsSinceLogin>>
  /\ UNCHANGED <<chatVars, searchVars, scoreVars, otherVars>>

\* setItem(REFRESH_TOKEN) resolved; setItem(USER_DATA) is issued.
LoginStoredRefresh ==
  /\ loginPc = "setRT"
  /\ storRT' = loginGen
  /\ loginPc' = "setUser"
  /\ loggedOut' = FALSE
  /\ failsSinceLogin' = 0
  /\ UNCHANGED <<coordVars, storAT, storUser, serverVars>>
  /\ UNCHANGED <<isAuthenticated, loginGen, logoutPc, restored>>
  /\ UNCHANGED <<refreshCalls, reissued, lastDrain, waitOrder, burst>>
  /\ UNCHANGED <<chatVars, searchVars, scoreVars, otherVars>>

\* setItem(USER_DATA) resolved; set({user, tokens, isAuthenticated: true}).
LoginStoredUser ==
  /\ loginPc = "setUser"
  /\ storUser' = TRUE
  /\ isAuthenticated' = TRUE
  /\ loginPc' = "idle"
  /\ loggedOut' = FALSE
  /\ UNCHANGED <<coordVars, storAT, storRT, serverVars>>
  /\ UNCHANGED <<loginGen, logoutPc, restored>>
  /\ UNCHANGED <<refreshCalls, reissued, lastDrain, waitOrder, burst,
                 failsSinceLogin>>
  /\ UNCHANGED <<chatVars, searchVars, scoreVars, otherVars>>

\* logout(): await authService.logout() is pending.  The profile screen
\* that calls it is mounted only while isAuthenticated.
LogoutStart ==
  /\ isAuthenticated
  /\ logoutPc = "idle"
  /\ logoutPc' = "call"
  /\ UNCHANGED <<coordVars, storVars, serverVars>>
  /\ UNCHANGED <<isAuthenticated, loginPc, loginGen, restored>>
  /\ UNCHANGED <<refreshCalls, reissued, lastDrain, waitOrder, burst,
                 failsSinceLogin, loggedOut>>
  /\ UNCHANGED <<chatVars, searchVars, scoreVars, otherVars>>

\* authService.logout() settled (its error is ignored); multiRemove is issued.
LogoutCallSettled ==
  /\ logoutPc = "call"
  /\ logoutPc' = "clear"
  /\ UNCHANGED <<coordVars, storVars, serverVars, histVars>>
  /\ UNCHANGED <<isAuthenticated, loginPc, loginGen, restored>>
  /\ UNCHANGED <<chatVars, searchVars, scoreVars, otherVars>>

\* multiRemove resolved; set({user: null, tokens: null, isAuthenticated: false}).
LogoutCleared ==
  /\ logoutPc = "clear"
  /\ storAT' = 0 /\ storRT' = 0 /\ storUser' = FALSE
  /\ isAuthenticated' = FALSE
  /\ logoutPc' = "idle"
  /\ loggedOut' = TRUE
  /\ UNCHANGED <<coordVars, serverVars>>
  /\ UNCHANGED <<loginPc, loginGen, restored>>
  /\ UNCHANGED <<refreshCalls, reissued, lastDrain, waitOrder, burst,
                 failsSinceLogin>>
  /\ UNCHANGED <<chatVars, searchVars, scoreVars, otherVars>>

\* restoreSession(), called once when the root navigator mounts: multiGet
\* resolved; the session is restored when all three items are present.
RestoreSession ==
  /\ ~restored
  /\ restored' = TRUE
  /\ IF storAT # 0 /\ storRT # 0 /\ storUser
     THEN isAuthenticated' = TRUE
     ELSE UNCHANGED isAuthenticated
  /\ UNCHANGED <<coordVars, storVars, serverVars, histVars>>
  /\ UNCHANGED <<loginPc, loginGen, logoutPc>>
  /\ UNCHANGED <<chatVars, searchVars, scoreVars, otherVars>>

\* ------------------------------------------------ components/TravelChat.tsx
\* The chat endpoint's required-field predicate (params_complete).
RequiredPresent(p) == \A f \in Fields : p[f] = 1

\* The sets of fields one turn supplies in the runs explored: none, a single
\* field, or all of them (given a value, or returned as null).
TurnFields == {{}, Fields} \cup {{f} : f \in Fields}

\* The endpoint's merge: the fields fs the turn supplied take their new value
\* v[f] (1 = a value, 0 = null); every other field keeps the value sent in p.
Merge(p, fs, v) == [f \in Fields |-> IF f \in fs THEN v[f] ELSE p[f]]

\* What the chat endpoint may answer to an utterance sent with extracted
\* parameters p: the fields after the turn (each supplied, nulled or kept),
\* the fields the turn supplied, and whether the result is complete.
NlpReplies(p) ==
  UNION {{[params |-> Merge(p, fs, v), supplied |-> fs,
           complete |-> RequiredPresent(Merge(p, fs, v))] :
             v \in {[f \in fs |-> b] : b \in {0, 1}}} : fs \in TurnFields}

\* Variant: every text passes the guard.
M_NonBlank(text) == TRUE

\* text.trim() is non-empty
NonBlank(text) == text = "text"

\* The guard of handleSubmit / handleKeyDown: if (input.trim() && !loading).
\* The Send button and the textarea are disabled while loading || planning.
MaySubmit == NonBlank(input) /\ ~loading /\ ~planning

\* Variant: the confirm panel stays while planning is in progress.
M_ConfirmPanelShown == paramsComplete

\* The confirm panel is rendered when paramsComplete && !planning.
ConfirmPanelShown == paramsComplete /\ ~planning

\* Remove element i of a sequence.
Without(seq, i) == SubSeq(seq, 1, i - 1) \o SubSeq(seq, i + 1, Len(seq))

\* sendMessage(text) up to `await fetch`, called from a handler whose closure
\* holds the extracted parameters p.  The remaining chat variables are left
\* to the caller.
SendMessage(text, p) ==
  /\ NonBlank(text)
  /\ sends < MaxSends
  /\ messages' = Append(messages, "user")
  /\ input' = ""
  /\ loading' = TRUE
  /\ extractReqs' = Append(extractReqs, p)
  /\ sends' = sends + 1
  /\ snaps' = Append(snaps, <<Len(messages), extractedParams, paramsComplete, text>>)
  /\ emptyRejected' = FALSE

\* The user edits the text box (enabled unless loading || planning).
TypeInput(text) ==
  /\ ~loading /\ ~planning
  /\ input # text
  /\ input' = text
  /\ UNCHANGED <<messages, loading, planning, paramsComplete, isListening,
                 extractedParams, voiceParams, extractReqs, planReqs, sends, plans>>
  /\ UNCHANGED <<supplied, snaps, emptyRejected>>
  /\ UNCHANGED <<mobileVars, searchVars, scoreVars, otherVars>>

\* handleSubmit: the form is submitted with the Send button.
HandleSubmit ==
  /\ MaySubmit
  /\ SendMessage(input, extractedParams)
  /\ UNCHANGED <<planning, paramsComplete, isListening, extractedParams,
                 voiceParams, planReqs, plans>>
  /\ UNCHANGED supplied
  /\ UNCHANGED <<mobileVars, searchVars, scoreVars, otherVars>>

\* handleKeyDown: Enter without Shift in the textarea (which is disabled while
\* loading || planning); nothing happens when the input is empty or blank.
HandleKeyDown ==
  /\ ~loading /\ ~planning
  /\ IF MaySubmit
     THEN SendMessage(input, extractedParams)
     ELSE /\ emptyRejected' = TRUE
          /\ UNCHANGED <<messages, input, loading, extractReqs, sends, snaps>>
  /\ UNCHANGED <<planning, paramsComplete, isListening, extractedParams,
                 voiceParams, planReqs, plans>>
  /\ UNCHANGED supplied
  /\ UNCHANGED <<mobileVars, searchVars, scoreVars, otherVars>>

\* startListening: the mic button (disabled while loading || planning) starts
\* a recognition whose onresult handler keeps this render's sendMessage.
StartListening ==
  /\ ~loading /\ ~planning
  /\ ~isListening
  /\ isListening' = TRUE
  /\ voiceParams' = extractedParams
  /\ UNCHANGED <<messages, input, loading, planning, paramsComplete,
                 extractedParams, extractReqs, planReqs, sends, plans>>
  /\ UNCHANGED <<supplied, snaps, emptyRejected>>
  /\ UNCHANGED <<mobileVars, searchVars, scoreVars, otherVars>>

\* recognition.onresult with an interim result: setInput(transcript).
VoiceInterimResult(transcript) ==
  /\ isListening
  /\ input # transcript
  /\ input' = transcript
  /\ UNCHANGED <<messages, loading, planning, paramsComplete, isListening,
                 extractedParams, voiceParams, extractReqs, planReqs, sends, plans>>
  /\ UNCHANGED <<supplied, snaps, emptyRejected>>
  /\ UNCHANGED <<mobileVars, searchVars, scoreVars, otherVars>>

\* recognition.onresult with a final result: setInput(transcript),
\* setIsListening(false), and sendMessage(transcript.trim()) when non-blank.
VoiceFinalResult(transcript) ==
  /\ isListening
  /\ isListening' = FALSE
  /\ voiceParams' = NoParams
  /\ IF NonBlank(transcript)
     THEN SendMessage(transcript, voiceParams)
     ELSE /\ input' = transcript
          /\ emptyRejected' = TRUE
          /\ UNCHANGED <<messages, loading, extractReqs, sends, snaps>>
  /\ UNCHANGED <<planning, paramsComplete, extractedParams, planReqs, plans>>
  /\ UNCHANGED supplied
  /\ UNCHANGED <<mobileVars, searchVars, scoreVars, otherVars>>

\* stopListening / recognition.onend / recognition.onerror
StopListening ==
  /\ isListening
  /\ isListening' = FALSE
  /\ voiceParams' = NoParams
  /\ UNCHANGED <<messages, input, loading, planning, paramsComplete,
                 extractedParams, extractReqs, planReqs, sends, plans>>
  /\ UNCHANGED <<supplied, snaps, emptyRejected>>
  /\ UNCHANGED <<mobileVars, searchVars, scoreVars, otherVars>>

\* The 'Change Details' button of the confirm panel.
ChangeDetails ==
  /\ ConfirmPanelShown
  /\ paramsComplete' = FALSE
  /\ SendMessage("text", extractedParams)
  /\ UNCHANGED <<planning, isListening, extractedParams, voiceParams,
                 planReqs, plans>>
  /\ UNCHANGED supplied
  /\ UNCHANGED <<mobileVars, searchVars, scoreVars, otherVars>>

\* The extraction request i is answered with data.success.
ExtractSuccess(i) ==
  /\ i \in 1..Len(extractReqs)
  /\ \E data \in NlpReplies(extractReqs[i]) :
       /\ extractedParams' = data.params
       /\ paramsComplete' = data.complete
       /\ supplied' = data.supplied
  /\ UNCHANGED emptyRejected
  /\ messages' = Append(messages, "assistant")
  /\ loading' = FALSE
  /\ extractReqs' = Without(extractReqs, i)
  /\ snaps' = Without(snaps, i)
  /\ UNCHANGED <<input, planning, isListening, voiceParams, planReqs, sends, plans>>
  /\ UNCHANGED <<mobileVars, searchVars, scoreVars, otherVars>>

\* The extraction request i is answered with an error reply, or fetch throws:
\* an apology is appended, nothing else changes.
ExtractFailure(i) ==
  /\ i \in 1..Len(extractReqs)
  /\ messages' = Append(messages, "assistant")
  /\ loading' = FALSE
  /\ extractReqs' = Without(extractReqs, i)
  /\ snaps' = Without(snaps, i)
  /\ UNCHANGED <<input, planning, paramsComplete, isListening, extractedParams,
                 voiceParams, planReqs, sends, plans>>
  /\ UNCHANGED <<supplied, emptyRejected>>
  /\ UNCHANGED <<mobileVars, searchVars, scoreVars, otherVars>>

\* handleConfirmPlan up to `await fetch`: the 'Plan My Trip!' button.
HandleConfirmPlan ==
  /\ ConfirmPanelShown
  /\ plans < MaxPlans
  /\ planning' = TRUE
  /\ messages' = Append(messages, "system")
  /\ planReqs' = Append(planReqs, extractedParams)
  /\ plans' = plans + 1
  /\ UNCHANGED <<input, loading, paramsComplete, isListening, extractedParams,
                 voiceParams, extractReqs, sends>>
  /\ UNCHANGED <<supplied, snaps, emptyRejected>>
  /\ UNCHANGED <<mobileVars, searchVars, scoreVars, otherVars>>

\* The planning request i is answered (plan ready, planning failed, or the
\* fetch threw): one assistant message; finally setPlanning(false).
PlanAnswered(i) ==
  /\ i \in 1..Len(planReqs)
  /\ messages' = Append(messages, "assistant")
  /\ planning' = FALSE
  /\ planReqs' = Without(planReqs, i)
  /\ UNCHANGED <<input, loading, paramsComplete, isListening, extractedParams,
                 voiceParams, extractReqs, sends, plans>>
  /\ UNCHANGED <<supplied, snaps, emptyRejected>>
  /\ UNCHANGED <<mobileVars, searchVars, scoreVars, otherVars>>

ChatNext ==
  \/ \E text \in {"", "blank", "text"} : TypeInput(text)
  \/ HandleSubmit
  \/ HandleKeyDown
  \/ StartListening
  \/ \E transcript \in {"blank", "text"} : VoiceInterimResult(transcript)
  \/ \E transcript \in {"blank", "text"} : VoiceFinalResult(transcript)
  \/ StopListening
  \/ ChangeDetails
  \/ \E i \in 1..MaxSends : ExtractSuccess(i)
  \/ \E i \in 1..MaxSends : ExtractFailure(i)
  \/ HandleConfirmPlan
  \/ \E i \in 1..MaxPlans : PlanAnswered(i)

SpecChat == Init /\ [][ChatNext]_vars

\* --------------------------------- FlightResultsScreen / HotelResultsScreen
\* The flights a search may return.  A flight without goal_evaluation has
\* has_goal_evaluation = FALSE; duration_minutes = 0 stands for "undefined".
\* The id is the position in the list the search service returned.
FlightKinds ==
  {[price |-> p, has_goal_evaluation |-> h, total_utility |-> IF h THEN 1 ELSE 0] :
     p \in {1, 2}, h \in BOOLEAN}

FlightLists ==
  UNION {{[i \in 1..n |->
             [id |-> i, price |-> k[i].price, duration_minutes |-> 0, stops |-> 0,
              has_goal_evaluation |-> k[i].has_goal_evaluation,
              total_utility |-> k[i].total_utility]] :
            k \in [1..n -> FlightKinds]} : n \in 0..MaxFlights}

HotelKinds ==
  {[price_per_night |-> p, has_utility_score |-> h, total_score |-> IF h THEN 1 ELSE 0] :
     p \in {1, 2}, h \in BOOLEAN}

HotelLists ==
  UNION {{[i \in 1..n |->
             [id |-> i, price_per_night |-> k[i].price_per_night, rating |-> 4,
              stars |-> 3, has_utility_score |-> k[i].has_utility_score,
              total_score |-> k[i].total_score]] :
            k \in [1..n -> HotelKinds]} : n \in 0..MaxHotels}

\* a.goal_evaluation?.total_utility || 0
FlightUtility(a) == IF a.has_goal_evaluation THEN a.total_utility ELSE 0

\* a.utility_score?.total_score || 0
HotelScore(a) == IF a.has_utility_score THEN a.total_score ELSE 0

\* The compare function of FlightResultsScreen's sort.
FlightCompare(sortBy, a, b) ==
  CASE sortBy = "price" -> a.price - b.price
    [] sortBy = "duration" -> a.duration_minutes - b.duration_minutes
    [] sortBy = "stops" -> a.stops - b.stops
    [] sortBy = "score" -> FlightUtility(b) - FlightUtility(a)
    [] OTHER -> 0

\* The compare function of HotelResultsScreen's sort.
HotelCompare(sortBy, a, b) ==
  CASE sortBy = "price" -> a.price_per_night - b.price_per_night
    [] sortBy = "rating" -> b.rating - a.rating
    [] sortBy = "stars" -> b.stars - a.stars
    [] sortBy = "score" -> HotelScore(b) - HotelScore(a)
    [] OTHER -> 0

\* Array.prototype.sort is stable: an element moves in front of another only
\* when the compare function orders it strictly before.  cmp is the compare
\* function as a table over the list's elements.
RECURSIVE StableInsert(_, _, _)
\* Variant: an element that does not go last is dropped.
M_StableInsert(x, sorted, cmp) ==
  IF sorted = <<>> \/ cmp[sorted[Len(sorted)], x] <= 0 THEN Append(sorted, x)
  ELSE sorted

StableInsert(x, sorted, cmp) ==
  IF sorted = <<>> THEN <<x>>
  ELSE IF cmp[sorted[Len(sorted)], x] > 0
       THEN Append(StableInsert(x, SubSeq(sorted, 1, Len(sorted) - 1), cmp),
                   sorted[Len(sorted)])
       ELSE Append(sorted, x)

RECURSIVE StableSort(_, _)
StableSort(list, cmp) ==
  IF list = <<>> THEN <<>>
  ELSE StableInsert(list[Len(list)], StableSort(SubSeq(list, 1, Len(list) - 1), cmp), cmp)

\* sortedResults of FlightResultsScreen, computed at every render.
FlightSortedResults ==
  StableSort(flightResults,
             [a \in Range(flightResults), b \in Range(flightResults) |->
                FlightCompare(flightSortBy, a, b)])

\* sortedResults of HotelResultsScreen, computed at every render.
HotelSortedResults ==
  StableSort(hotelResults,
             [a \in Range(hotelResults), b \in Range(hotelResults) |->
                HotelCompare(hotelSortBy, a, b)])

\* setFlightResults(results): a search handed its results to the store.
ReceiveFlightResults(results) ==
  /\ flightResults # results
  /\ flightResults' = results
  /\ UNCHANGED <<flightSearchParams, isSearchingFlights, flightError,
                 hotelSearchParams, hotelResults, isSearchingHotels, hotelError,
                 flightSearches, hotelSearches, flightSortBy, hotelSortBy,
                 flightResultsFor, hotelResultsFor>>
  /\ UNCHANGED <<mobileVars, chatVars, scoreVars, otherVars>>

\* setHotelResults(results)
ReceiveHotelResults(results) ==
  /\ hotelResults # results
  /\ hotelResults' = results
  /\ UNCHANGED <<flightSearchParams, flightResults, isSearchingFlights, flightError,
                 hotelSearchParams, isSearchingHotels, hotelError,
                 flightSearches, hotelSearches, flightSortBy, hotelSortBy,
                 flightResultsFor, hotelResultsFor>>
  /\ UNCHANGED <<mobileVars, chatVars, scoreVars, otherVars>>

\* A button of the flight sort bar: setSortBy(opt.key).
SetFlightSortBy(opt) ==
  /\ flightSortBy # opt
  /\ flightSortBy' = opt
  /\ UNCHANGED <<flightSearchParams, flightResults, isSearchingFlights, flightError,
                 hotelSearchParams, hotelResults, isSearchingHotels, hotelError,
                 flightSearches, hotelSearches, hotelSortBy,
                 flightResultsFor, hotelResultsFor>>
  /\ UNCHANGED <<mobileVars, chatVars, scoreVars, otherVars>>

\* A button of the hotel sort bar: setSortBy(opt.key).
SetHotelSortBy(opt) ==
  /\ hotelSortBy # opt
  /\ hotelSortBy' = opt
  /\ UNCHANGED <<flightSearchParams, flightResults, isSearchingFlights, flightError,
                 hotelSearchParams, hotelResults, isSearchingHotels, hotelError,
                 flightSearches, hotelSearches, flightSortBy,
                 flightResultsFor, hotelResultsFor>>
  /\ UNCHANGED <<mobileVars, chatVars, scoreVars, otherVars>>

RankNext ==
  \/ \E results \in FlightLists : ReceiveFlightResults(results)
  \/ \E results \in HotelLists : ReceiveHotelResults(results)
  \/ \E opt \in {"score", "price", "duration", "stops"} : SetFlightSortBy(opt)
  \/ \E opt \in {"score", "price", "rating", "stars"} : SetHotelSortBy(opt)

SpecRank == Init /\ [][RankNext]_vars

\* -------------------------------------------------------- goal-based scoring
WeightSum(w) == w.price + w.duration + w.stops

\* The weights must sum to 1.0 (within the tolerance); nothing else is validated.
ValidWeights(w) ==
  /\ WeightSum(w) >= Scale - Epsilon
  /\ WeightSum(w) <= Scale + Epsilon

WeightGrid == {0 - 50, 0, 100, 150}

\* The weight sets offered to the constructor: the default, one that is off
\* by the tolerance, and the grid.
WeightSets ==
  {DefaultWeights, [price |-> 50, duration |-> 20, stops |-> 31]}
    \cup [Components -> WeightGrid]

GoalProfiles ==
  {[budgetMax |-> b, preferredDuration |-> d, weights |-> w] :
     b \in {0, 500}, d \in {0, 300},
     w \in {x \in WeightSets : ValidWeights(x)}}

\* has_duration = FALSE: the candidate has no duration (duration is then 0).
\* price_rank and duration_rank are the candidate's normalized ranks among the
\* candidates of its search, 0 the best and Scale the worst.
Candidates ==
  {[price |-> p, has_duration |-> d # 0, duration |-> d, stops |-> s,
    price_rank |-> pr, duration_rank |-> dr] :
     p \in {450, 900}, d \in {0, 300, 900}, s \in 0..MaxStops,
     pr \in {0, Scale}, dr \in {0, Scale}}

Abs(n) == IF n < 0 THEN 0 - n ELSE n

M_Clamp(n) == n

\* clamp(n, 0, 1)
Clamp(n) == IF n < 0 THEN 0 ELSE IF n > Scale THEN Scale ELSE n

\* clamp(1 - price / (budgetMax * 1.5), 0, 1) when budgetMax is set,
\* else 1 - normalizedPriceRank.
PriceScore(c, g) ==
  IF g.budgetMax # 0
  THEN Clamp((Scale * (3 * g.budgetMax - 2 * c.price)) \div (3 * g.budgetMax))
  ELSE Scale - c.price_rank

\* clamp(1 - |duration - preferred| / preferred, 0, 1) when a preferred
\* duration is set, else 1 - normalizedDurationRank; 0 for a missing duration.
DurationScore(c, g) ==
  IF ~c.has_duration THEN 0
  ELSE IF g.preferredDuration # 0
  THEN Clamp((Scale * (g.preferredDuration - Abs(c.duration - g.preferredDuration)))
               \div g.preferredDuration)
  ELSE Scale - c.duration_rank

\* 1 / (1 + stops)
StopsScore(c) == Scale \div (1 + c.stops)

\* budgetMax is null or price <= budgetMax
BudgetConstraintMet(c, g) == g.budgetMax = 0 \/ c.price <= g.budgetMax

\* The sum over the components of weight * componentScore.
TotalUtility(c, g) ==
  g.weights.price * PriceScore(c, g)
    + g.weights.duration * DurationScore(c, g)
    + g.weights.stops * StopsScore(c)

M_Tier(totalUtility, budgetConstraintMet) ==
  IF totalUtility >= 80 * Scale THEN "excellent"
  ELSE IF totalUtility >= 60 * Scale THEN "good"
  ELSE IF totalUtility >= 40 * Scale THEN "fair"
  ELSE "poor"

\* The recommendation tier, first match.
Tier(totalUtility, budgetConstraintMet) ==
  IF ~budgetConstraintMet THEN "poor"
  ELSE IF totalUtility >= 80 * Scale THEN "excellent"
  ELSE IF totalUtility >= 60 * Scale THEN "good"
  ELSE IF totalUtility >= 40 * Scale THEN "fair"
  ELSE "poor"

Evaluate(c, g) ==
  [price_score |-> PriceScore(c, g),
   duration_score |-> DurationScore(c, g),
   stops_score |-> StopsScore(c),
   total_utility |-> TotalUtility(c, g),
   budget_constraint_met |-> BudgetConstraintMet(c, g),
   recommendation |-> Tier(TotalUtility(c, g), BudgetConstraintMet(c, g))]

\* A goal profile is constructed (its weights validated) and becomes the
\* current one; the scores computed under the previous profile are dropped.
SetGoalProfile(g) ==
  /\ g # goalProfile
  /\ ValidWeights(g.weights)
  /\ goalProfile' = g
  /\ evaluation' = NoEvaluation
  /\ evaluated' = FALSE
  /\ UNCHANGED candidate
  /\ UNCHANGED <<mobileVars, chatVars, searchVars, otherVars>>

\* A candidate is scored under the current goal profile.
ScoreCandidate(c) ==
  /\ candidate' = c
  /\ evaluation' = Evaluate(c, goalProfile)
  /\ evaluated' = TRUE
  /\ UNCHANGED goalProfile
  /\ UNCHANGED <<mobileVars, chatVars, searchVars, otherVars>>

ScoreNext ==
  \/ \E g \in GoalProfiles : SetGoalProfile(g)
  \/ \E c \in Candidates : ScoreCandidate(c)

SpecScore == Init /\ [][ScoreNext]_vars

\* ------------------------------- search store, FlightSearchScreen, HotelSearchScreen
Goals == 1..NGoals

\* What flightService.search may answer for the search parameters g
\* (data.results || []): nothing, or one scored flight.
FlightAnswers(g) ==
  {<<>>,
   <<[id |-> 1, price |-> g, duration_minutes |-> 0, stops |-> 0,
      has_goal_evaluation |-> TRUE, total_utility |-> 1]>>}

\* What hotelService.search may answer for the search parameters g.
HotelAnswers(g) ==
  {<<>>,
   <<[id |-> 1, price_per_night |-> g, rating |-> 4, stars |-> 3,
      has_utility_score |-> TRUE, total_score |-> 1]>>}

\* FlightSearchScreen.handleSearch up to its await, with valid fields.  The
\* Search button stays enabled while a search is in flight; the model keeps at
\* most one search in flight per search parameters.
HandleFlightSearch(g) ==
  /\ g \notin flightSearches
  /\ flightSearchParams' = g
  /\ isSearchingFlights' = TRUE
  /\ flightError' = FALSE
  /\ flightSearches' = flightSearches \cup {g}
  /\ UNCHANGED <<flightResults, flightResultsFor, flightSortBy>>
  /\ UNCHANGED <<hotelSearchParams, hotelResults, isSearchingHotels, hotelError,
                 hotelSearches, hotelSortBy, hotelResultsFor>>
  /\ UNCHANGED <<mobileVars, chatVars, scoreVars, otherVars>>

\* The search for g resolved: setFlightResults, navigate, finally.
FlightSearchResolved(g, results) ==
  /\ g \in flightSearches
  /\ flightResults' = results
  /\ flightResultsFor' = g
  /\ isSearchingFlights' = FALSE
  /\ flightSearches' = flightSearches \ {g}
  /\ UNCHANGED <<flightSearchParams, flightError, flightSortBy>>
  /\ UNCHANGED <<hotelSearchParams, hotelResults, isSearchingHotels, hotelError,
                 hotelSearches, hotelSortBy, hotelResultsFor>>
  /\ UNCHANGED <<mobileVars, chatVars, scoreVars, otherVars>>

\* The search for g rejected: catch, finally.
FlightSearchRejected(g) ==
  /\ g \in flightSearches
  /\ flightError' = TRUE
  /\ isSearchingFlights' = FALSE
  /\ flightSearches' = flightSearches \ {g}
  /\ UNCHANGED <<flightSearchParams, flightResults, flightResultsFor, flightSortBy>>
  /\ UNCHANGED <<hotelSearchParams, hotelResults, isSearchingHotels, hotelError,
                 hotelSearches, hotelSortBy, hotelResultsFor>>
  /\ UNCHANGED <<mobileVars, chatVars, scoreVars, otherVars>>

\* HotelSearchScreen.handleSearch up to its await, with valid fields.
HandleHotelSearch(g) ==
  /\ g \notin hotelSearches
  /\ hotelSearchParams' = g
  /\ isSearchingHotels' = TRUE
  /\ hotelError' = FALSE
  /\ hotelSearches' = hotelSearches \cup {g}
  /\ UNCHANGED <<hotelResults, hotelResultsFor, hotelSortBy>>
  /\ UNCHANGED <<flightSearchParams, flightResults, isSearchingFlights, flightError,
                 flightSearches, flightSortBy, flightResultsFor>>
  /\ UNCHANGED <<mobileVars, chatVars, scoreVars, otherVars>>

\* The search for g resolved: setHotelResults, navigate, finally.
HotelSearchResolved(g, results) ==
  /\ g \in hotelSearches
  /\ hotelResults' = results
  /\ hotelResultsFor' = g
  /\ isSearchingHotels' = FALSE
  /\ hotelSearches' = hotelSearches \ {g}
  /\ UNCHANGED <<hotelSearchParams, hotelError, hotelSortBy>>
  /\ UNCHANGED <<flightSearchParams, flightResults, isSearchingFlights, flightError,
                 flightSearches, flightSortBy, flightResultsFor>>
  /\ UNCHANGED <<mobileVars, chatVars, scoreVars, otherVars>>

\* The search for g rejected: catch, finally.
HotelSearchRejected(g) ==
  /\ g \in hotelSearches
  /\ hotelError' = TRUE
  /\ isSearchingHotels' = FALSE
  /\ hotelSearches' = hotelSearches \ {g}
  /\ UNCHANGED <<hotelSearchParams, hotelResults, hotelResultsFor, hotelSortBy>>
  /\ UNCHANGED <<flightSearchParams, flightResults, isSearchingFlights, flightError,
                 flightSearches, flightSortBy, flightResultsFor>>
  /\ UNCHANGED <<mobileVars, chatVars, scoreVars, otherVars>>

\* clearSearch: parameters, results and errors of both searches are reset;
\* the searching flags are not.
ClearSearch ==
  /\ flightSearchParams' = 0
  /\ flightResults' = <<>>
  /\ flightError' = FALSE
  /\ hotelSearchParams' = 0
  /\ hotelResults' = <<>>
  /\ hotelError' = FALSE
  /\ flightResultsFor' = 0
  /\ hotelResultsFor' = 0
  /\ UNCHANGED <<isSearchingFlights, isSearchingHotels, flightSearches, hotelSearches,
                 flightSortBy, hotelSortBy>>
  /\ UNCHANGED <<mobileVars, chatVars, scoreVars, otherVars>>

SearchNext ==
  \/ \E g \in Goals : HandleFlightSearch(g)
  \/ \E g \in Goals : \E results \in FlightAnswers(g) : FlightSearchResolved(g, results)
  \/ \E g \in Goals : FlightSearchRejected(g)
  \/ \E g \in Goals : HandleHotelSearch(g)
  \/ \E g \in Goals : \E results \in HotelAnswers(g) : HotelSearchResolved(g, results)
  \/ \E g \in Goals : HotelSearchRejected(g)
  \/ ClearSearch

SpecSearch == Init /\ [][SearchNext]_vars

\* ------------------------------------------------------------ scripts/build.sh
\* main: `wait` returns once the three background pulls have returned, whatever
\* their status; build_with_retry is called.
MainWaitDone ==
  /\ bpc["build"] = "waiting"
  /\ \A p \in Pulls : bpc[p] = "returned"
  /\ bpc' = [bpc EXCEPT !["build"] = "test"]
  /\ UNCHANGED <<attempt, wait_time, status, tries, slept>>
  /\ UNCHANGED <<mobileVars, chatVars, searchVars, scoreVars>>
  /\ UNCHANGED <<webNotifVars, mobNotifVars, wsVars>>

\* while [ $attempt -le $MAX_RETRIES ]: run the command, or leave the loop and
\* return 1.
LoopTest(p) ==
  /\ bpc[p] = "test"
  /\ IF attempt[p] <= MAX_RETRIES
     THEN /\ bpc' = [bpc EXCEPT ![p] = "run"]
          /\ UNCHANGED status
     ELSE /\ bpc' = [bpc EXCEPT ![p] = "returned"]
          /\ status' = [status EXCEPT ![p] = 1]
  /\ UNCHANGED <<attempt, wait_time, tries, slept>>
  /\ UNCHANGED <<mobileVars, chatVars, searchVars, scoreVars>>
  /\ UNCHANGED <<webNotifVars, mobNotifVars, wsVars>>

\* docker pull / docker compose build succeeded: return 0.
CommandSucceeds(p) ==
  /\ bpc[p] = "run"
  /\ tries' = [tries EXCEPT ![p] = Append(@, TRUE)]
  /\ status' = [status EXCEPT ![p] = 0]
  /\ bpc' = [bpc EXCEPT ![p] = "returned"]
  /\ UNCHANGED <<attempt, wait_time, slept>>
  /\ UNCHANGED <<mobileVars, chatVars, searchVars, scoreVars>>
  /\ UNCHANGED <<webNotifVars, mobNotifVars, wsVars>>

\* The command failed: sleep $wait_time when another attempt is left, else
\* attempt=$((attempt + 1)).
CommandFails(p) ==
  /\ bpc[p] = "run"
  /\ tries' = [tries EXCEPT ![p] = Append(@, FALSE)]
  /\ IF attempt[p] < MAX_RETRIES
     THEN /\ bpc' = [bpc EXCEPT ![p] = "sleep"]
          /\ slept' = [slept EXCEPT ![p] = Append(@, wait_time[p])]
          /\ UNCHANGED attempt
     ELSE /\ bpc' = [bpc EXCEPT ![p] = "test"]
          /\ attempt' = [attempt EXCEPT ![p] = @ + 1]
          /\ UNCHANGED slept
  /\ UNCHANGED <<wait_time, status>>
  /\ UNCHANGED <<mobileVars, chatVars, searchVars, scoreVars>>
  /\ UNCHANGED <<webNotifVars, mobNotifVars, wsVars>>

M_NextWait(w) == w + 2

\* wait_time=$((wait_time * 2))
NextWait(w) == w * 2

\* sleep returned: the wait is doubled and the attempt counted.
SleepDone(p) ==
  /\ bpc[p] = "sleep"
  /\ wait_time' = [wait_time EXCEPT ![p] = NextWait(@)]
  /\ attempt' = [attempt EXCEPT ![p] = @ + 1]
  /\ bpc' = [bpc EXCEPT ![p] = "test"]
  /\ UNCHANGED <<status, tries, slept>>
  /\ UNCHANGED <<mobileVars, chatVars, searchVars, scoreVars>>
  /\ UNCHANGED <<webNotifVars, mobNotifVars, wsVars>>

BuildNext ==
  \/ MainWaitDone
  \/ \E p \in Loops : LoopTest(p)
  \/ \E p \in Loops : CommandSucceeds(p)
  \/ \E p \in Loops : CommandFails(p)
  \/ \E p \in Loops : SleepDone(p)

\* The commands and the sleeps return; the shell runs every job.
SpecBuild == Init /\ [][BuildNext]_vars /\ WF_vars(BuildNext)

\* ------------------------------------------ frontend store/notificationStore.ts
\* A notification is its id and its read flag.  The fetch sync adds every
\* fetched item and the socket handler adds every pushed one, so an id may
\* be added more than once.
NotifIds == 1..NIds
Notifications == [id : NotifIds, read : BOOLEAN]

\* Number of stored notifications with read = false.
Unread(ns) == Cardinality({i \in 1..Len(ns) : ~ns[i].read})

\* notifications.find((n) => n.id === id): index of the first match, 0 if none.
Find(ns, id) ==
  IF \E i \in 1..Len(ns) : ns[i].id = id
  THEN CHOOSE i \in 1..Len(ns) : ns[i].id = id /\ \A j \in 1..(i - 1) : ns[j].id # id
  ELSE 0

\* notifications.map((n) => n.id === id ? {...n, read: true} : n)
MarkRead(ns, id) ==
  [i \in 1..Len(ns) |-> IF ns[i].id = id THEN [ns[i] EXCEPT !.read = TRUE] ELSE ns[i]]

\* notifications.map((n) => ({...n, read: true}))
MarkAllRead(ns) == [i \in 1..Len(ns) |-> [ns[i] EXCEPT !.read = TRUE]]

\* notifications.filter((n) => n.id !== id)
RECURSIVE Filter(_, _)
Filter(ns, id) ==
  IF ns = <<>> THEN <<>>
  ELSE IF ns[1].id = id THEN Filter(Tail(ns), id)
       ELSE <<ns[1]>> \o Filter(Tail(ns), id)

\* wasUnread = notification && !notification.read
WasUnread(ns, id) == Find(ns, id) # 0 /\ ~ns[Find(ns, id)].read

WebAddNotification(n) ==
  /\ Len(webNotifications) < MaxNotifs
  /\ webUnreadCount < MaxUnread
  /\ webNotifications' = <<n>> \o webNotifications
  /\ webUnreadCount' = IF n.read THEN webUnreadCount ELSE webUnreadCount + 1
  /\ UNCHANGED <<mobileVars, chatVars, searchVars, scoreVars>>
  /\ UNCHANGED <<buildVars, mobNotifVars, wsVars>>

WebMarkAsRead(id) ==
  /\ webNotifications' = MarkRead(webNotifications, id)
  /\ webUnreadCount' = IF WasUnread(webNotifications, id)
                       THEN webUnreadCount - 1 ELSE webUnreadCount
  /\ UNCHANGED <<mobileVars, chatVars, searchVars, scoreVars>>
  /\ UNCHANGED <<buildVars, mobNotifVars, wsVars>>

WebMarkAllAsRead ==
  /\ webNotifications' = MarkAllRead(webNotifications)
  /\ webUnreadCount' = 0
  /\ UNCHANGED <<mobileVars, chatVars, searchVars, scoreVars>>
  /\ UNCHANGED <<buildVars, mobNotifVars, wsVars>>

WebRemoveNotification(id) ==
  /\ webNotifications' = Filter(webNotifications, id)
  /\ webUnreadCount' = IF WasUnread(webNotifications, id)
                       THEN webUnreadCount - 1 ELSE webUnreadCount
  /\ UNCHANGED <<mobileVars, chatVars, searchVars, scoreVars>>
  /\ UNCHANGED <<buildVars, mobNotifVars, wsVars>>

WebNotifNext ==
  \/ \E n \in Notifications : WebAddNotification(n)
  \/ \E id \in NotifIds : WebMarkAsRead(id)
  \/ WebMarkAllAsRead
  \/ \E id \in NotifIds : WebRemoveNotification(id)

SpecWebNotif == Init /\ [][WebNotifNext]_vars

\* -------------------------------------------- mobile store/notificationStore.ts
\* The lists a fetch may hand to setNotifications.
NotificationLists ==
  UNION {[1..n -> Notifications] : n \in 0..(MaxNotifs - 1)}

\* Math.max(0, n)
Max0(n) == IF n < 0 THEN 0 ELSE n

MobSetNotifications(ns) ==
  /\ mobNotifications' = ns
  /\ mobUnreadCount' = Unread(ns)
  /\ UNCHANGED <<mobileVars, chatVars, searchVars, scoreVars>>
  /\ UNCHANGED <<buildVars, webNotifVars, wsVars>>

MobAddNotification(n) ==
  /\ Len(mobNotifications) < MaxNotifs
  /\ mobUnreadCount < MaxUnread
  /\ mobNotifications' = <<n>> \o mobNotifications
  /\ mobUnreadCount' = mobUnreadCount + (IF n.read THEN 0 ELSE 1)
  /\ UNCHANGED <<mobileVars, chatVars, searchVars, scoreVars>>
  /\ UNCHANGED <<buildVars, webNotifVars, wsVars>>

\* markAsRead subtracts 1 whatever the notification's read flag.
MobMarkAsRead(id) ==
  /\ mobNotifications' = MarkRead(mobNotifications, id)
  /\ mobUnreadCount' = Max0(mobUnreadCount - 1)
  /\ UNCHANGED <<mobileVars, chatVars, searchVars, scoreVars>>
  /\ UNCHANGED <<buildVars, webNotifVars, wsVars>>

MobMarkAllAsRead ==
  /\ mobNotifications' = MarkAllRead(mobNotifications)
  /\ mobUnreadCount' = 0
  /\ UNCHANGED <<mobileVars, chatVars, searchVars, scoreVars>>
  /\ UNCHANGED <<buildVars, webNotifVars, wsVars>>

MobRemoveNotification(id) ==
  /\ mobNotifications' = Filter(mobNotifications, id)
  /\ mobUnreadCount' = IF WasUnread(mobNotifications, id)
                       THEN Max0(mobUnreadCount - 1) ELSE mobUnreadCount
  /\ UNCHANGED <<mobileVars, chatVars, searchVars, scoreVars>>
  /\ UNCHANGED <<buildVars, webNotifVars, wsVars>>

MobClearAll ==
  /\ mobNotifications' = <<>>
  /\ mobUnreadCount' = 0
  /\ UNCHANGED <<mobileVars, chatVars, searchVars, scoreVars>>
  /\ UNCHANGED <<buildVars, webNotifVars, wsVars>>

\* The ids markAsRead / removeNotification may be called with: one more than
\* the store can hold, for an unknown id.
CalledIds == 1..(NIds + 1)

MobNotifNext ==
  \/ \E ns \in NotificationLists : MobSetNotifications(ns)
  \/ \E n \in Notifications : MobAddNotification(n)
  \/ \E id \in CalledIds : MobMarkAsRead(id)
  \/ MobMarkAllAsRead
  \/ \E id \in CalledIds : MobRemoveNotification(id)
  \/ MobClearAll

SpecMobNotif == Init /\ [][MobNotifNext]_vars

\* ------------------------------------------ frontend services/websocketService.ts
Live == {"connecting", "connected"}

\* connect(): returns when the socket held is connected or no token is
\* stored; else creates a socket with io(), which starts connecting, and
\* holds it.  The socket held before is not closed.
Connect(token) ==
  /\ ~(socket # 0 /\ sock[socket] = "connected")
  /\ token
  /\ \E s \in Sockets :
       /\ sock[s] = "none"
       /\ \A t \in Sockets : t < s => sock[t] # "none"
       /\ sock' = [sock EXCEPT ![s] = "connecting"]
       /\ socket' = s
  /\ UNCHANGED <<listeners, deliveries, lastEvent>>
  /\ UNCHANGED <<mobileVars, chatVars, searchVars, scoreVars>>
  /\ UNCHANGED <<buildVars, webNotifVars, mobNotifVars>>

\* disconnect(): the socket held is closed and dropped, the listeners cleared.
Disconnect ==
  /\ socket # 0
  /\ sock' = [sock EXCEPT ![socket] = "closed"]
  /\ socket' = 0
  /\ listeners' = [e \in Events |-> {}]
  /\ UNCHANGED <<deliveries, lastEvent>>
  /\ UNCHANGED <<mobileVars, chatVars, searchVars, scoreVars>>
  /\ UNCHANGED <<buildVars, webNotifVars, mobNotifVars>>

\* A socket's connection is established.
SocketConnected(s) ==
  /\ sock[s] = "connecting"
  /\ sock' = [sock EXCEPT ![s] = "connected"]
  /\ UNCHANGED <<socket, listeners, deliveries, lastEvent>>
  /\ UNCHANGED <<mobileVars, chatVars, searchVars, scoreVars>>
  /\ UNCHANGED <<buildVars, webNotifVars, mobNotifVars>>

\* A socket's connection is lost; with reconnection: true it connects again.
SocketDropped(s) ==
  /\ sock[s] = "connected"
  /\ sock' = [sock EXCEPT ![s] = "connecting"]
  /\ UNCHANGED <<socket, listeners, deliveries, lastEvent>>
  /\ UNCHANGED <<mobileVars, chatVars, searchVars, scoreVars>>
  /\ UNCHANGED <<buildVars, webNotifVars, mobNotifVars>>

\* on(event, callback)
On(e, cb) ==
  /\ cb \notin listeners[e]
  /\ listeners' = [listeners EXCEPT ![e] = @ \cup {cb}]
  /\ UNCHANGED <<socket, sock, deliveries, lastEvent>>
  /\ UNCHANGED <<mobileVars, chatVars, searchVars, scoreVars>>
  /\ UNCHANGED <<buildVars, webNotifVars, mobNotifVars>>

\* off(event, callback)
Off(e, cb) ==
  /\ cb \in listeners[e]
  /\ listeners' = [listeners EXCEPT ![e] = @ \ {cb}]
  /\ UNCHANGED <<socket, sock, deliveries, lastEvent>>
  /\ UNCHANGED <<mobileVars, chatVars, searchVars, scoreVars>>
  /\ UNCHANGED <<buildVars, webNotifVars, mobNotifVars>>

\* The handlers setupEventHandlers registered on a socket that run for an
\* incoming event, in registration order: the event's own handler, if it has
\* one, and the onAny handler.  Each calls emit(event, data).
HandlersFor(e) ==
  IF e \in NamedEvents THEN <<"on", "onAny">> ELSE <<"onAny">>

\* emit(event, data): every callback registered for the event is called.
Emit(e, calls) ==
  [cb \in Callbacks |-> IF cb \in listeners[e] THEN calls[cb] + 1 ELSE calls[cb]]

RECURSIVE RunHandlers(_, _, _)
RunHandlers(hs, e, calls) ==
  IF hs = <<>> THEN calls ELSE RunHandlers(Tail(hs), e, Emit(e, calls))

\* The server's event e arrives on the connected socket s, held or not.
ServerEvent(s, e) ==
  /\ sock[s] = "connected"
  /\ deliveries' = RunHandlers(HandlersFor(e), e, [cb \in Callbacks |-> 0])
  /\ lastEvent' = e
  /\ UNCHANGED <<socket, sock, listeners>>
  /\ UNCHANGED <<mobileVars, chatVars, searchVars, scoreVars>>
  /\ UNCHANGED <<buildVars, webNotifVars, mobNotifVars>>

SocketNext ==
  \/ \E token \in BOOLEAN : Connect(token)
  \/ Disconnect
  \/ \E s \in Sockets : SocketConnected(s)
  \/ \E s \in Sockets : SocketDropped(s)
  \/ \E e \in Events : \E cb \in Callbacks : On(e, cb)
  \/ \E e \in Events : \E cb \in Callbacks : Off(e, cb)
  \/ \E s \in Sockets : \E e \in Events : ServerEvent(s, e)

SpecSocket == Init /\ [][SocketNext]_vars

\* ------------------------------------------------------------------ Next
\* The coordinator, its requests and the auth server.
CoordNext ==
  \/ \E r \in Req : IssueRequest(r)
  \/ \E r \in Req : AttachCredential(r)
  \/ \E r \in Req : RespondOK(r)
  \/ \E r \in Req : RespondError(r)
  \/ \E r \in Req : Respond401(r)
  \/ \E r \in Req : HandlerGotRefreshToken(r)
  \/ \E r \in Req : RefreshSucceeds(r)
  \/ \E r \in Req : RefreshFails(r)
  \/ \E r \in Req : HandlerStoredAccess(r)
  \/ \E r \in Req : HandlerStoredRefresh(r)
  \/ \E r \in Req : HandlerCleared(r)
  \/ ExpireTokens

Next == CoordNext

Spec == Init /\ [][Next]_vars

\* The coordinator together with the auth store, for a session of at most
\* NSessReq requests.  Screens, and so requests, exist only after the root
\* navigator's session check (restoreSession) has finished.
InSession(r) == restored /\ r <= NSessReq

SessionNext ==
  \/ \E r \in Req : InSession(r) /\ IssueRequest(r)
  \/ \E r \in Req : AttachCredential(r)
  \/ \E r \in Req : RespondOK(r)
  \/ \E r \in Req : RespondError(r)
  \/ \E r \in Req : Respond401(r)
  \/ \E r \in Req : HandlerGotRefreshToken(r)
  \/ \E r \in Req : RefreshSucceeds(r)
  \/ \E r \in Req : RefreshFails(r)
  \/ \E r \in Req : HandlerStoredAccess(r)
  \/ \E r \in Req : HandlerStoredRefresh(r)
  \/ \E r \in Req : HandlerCleared(r)
  \/ ExpireTokens
  \/ LoginStart
  \/ LoginResponse
  \/ LoginRejected
  \/ LoginStoredAccess
  \/ LoginStoredRefresh
  \/ LoginStoredUser
  \/ LogoutStart
  \/ LogoutCallSettled
  \/ LogoutCleared
  \/ RestoreSession

SpecSession == Init /\ [][SessionNext]_vars

\* ===================================================================
\* Properties of the session token-refresh coordinator
\* ===================================================================
Handling == {"h_getRT", "h_post", "h_setAT", "h_setRT", "h_clear"}
Settled == {"done", "rejected"}

\* Requests whose refresh call is in flight at the auth service.
RefreshInFlight == {r \in Req : rpc[r] = "h_post"}

\* C1: at most one refresh call to the auth service is in flight at any time,
\* whatever the interleaving of the requests that receive a 401.
C1_AtMostOneRefreshInFlight == Cardinality(RefreshInFlight) <= 1

\* C1 witness: a refresh call is in flight while another request that
\* received a 401 waits in the queue.
C1_Witness ==
  \E r \in Req : rpc[r] = "h_post" /\ \E q \in Req : rpc[q] = "queued"

\* C2 (as claimed): when every request has been sent, each first carried the
\* same access token (generation 1), only that token ever expired and no
\* refresh failed, at most one refresh call is made in total.
C2_ExactlyOneRefresh ==
  (burst /\ expiredUpTo = 1 /\ failsSinceLogin = 0
     /\ \A r \in Req : rpc[r] # "new" /\ (rpc[r] = "attach" => reissued[r]))
    => refreshCalls <= 1

\* C3 (as claimed): a request the coordinator has reissued is never reissued,
\* queued or allowed to start a refresh again: when its retry is answered it
\* settles (resolved or rejected).
C3_RetriedAtMostOnce ==
  [][\A r \in Req :
       (reissued[r] /\ rpc[r] = "sent" /\ rpc'[r] # "sent")
         => rpc'[r] \in Settled]_vars

\* C4: a request answered 401 while a refresh is in progress starts no
\* refresh; a queued request leaves the queue only when that refresh
\* resolves; on success the waiters are reissued in the order in which they
\* received their 401, each with the new access token in its header.
C4_QueueHeldThenFifo ==
  [][/\ \A r \in Req :
          (isRefreshing /\ rpc[r] = "sent" /\ rpc'[r] # "sent")
            => /\ rpc'[r] \in Settled \cup {"queued"}
               /\ refreshCalls' = refreshCalls
               /\ RefreshInFlight' = RefreshInFlight
     /\ \A q \in Req :
          (rpc[q] = "queued" /\ rpc'[q] # "queued")
            => \E h \in Req :
                 \/ /\ rpc[h] = "h_setRT" /\ rpc'[h] = "attach"
                    /\ rpc'[q] = "attach"
                    /\ hdr'[q] = ntok[h]
                 \/ /\ rpc[h] \in {"h_getRT", "h_post"} /\ rpc'[h] = "h_clear"
                    /\ rpc'[q] = "rejected"
     /\ \A h \in Req :
          (rpc[h] = "h_setRT" /\ rpc'[h] # "h_setRT")
            => /\ lastDrain' = <<"resolve", waitOrder>>
               /\ \A q \in Range(waitOrder) :
                    rpc'[q] = "attach" /\ hdr'[q] = ntok[h] /\ hdr'[q] = storAT'
     ]_vars

\* C4 witness: a successful refresh has just reissued two waiters.
C4_Witness ==
  /\ lastDrain[1] = "resolve" /\ Len(lastDrain[2]) >= 2
  /\ \A q \in Range(lastDrain[2]) : rpc[q] = "attach" /\ hdr[q] = storAT

\* C5: when the refresh fails (the call is rejected, or no refresh token is
\* stored, in which case no call is sent), every request waiting in the queue
\* at that moment is rejected; when the failure path ends the access token,
\* the refresh token and the user data are removed from storage and
\* isRefreshing is false.
C5_FailureRejectsAndClears ==
  [][\A h \in Req :
       /\ (rpc[h] = "h_getRT" /\ rpc'[h] # "h_getRT" /\ storRT = 0)
            => rpc'[h] = "h_clear" /\ refreshCalls' = refreshCalls
       /\ (rpc[h] \in {"h_getRT", "h_post"} /\ rpc'[h] = "h_clear")
            => /\ \A q \in Range(waitOrder) : rpc'[q] = "rejected"
               /\ failedQueue' = <<>>
               /\ lastDrain' = <<"reject", waitOrder>>
       /\ (rpc[h] = "h_clear" /\ rpc'[h] # "h_clear")
            => /\ rpc'[h] = "rejected"
               /\ storAT' = 0 /\ storRT' = 0 /\ ~storUser'
               /\ ~isRefreshing'
     ]_vars

\* C5 witness: a refresh failed with two requests waiting; they are rejected,
\* storage is empty and the coordinator is idle again.
C5_Witness ==
  /\ lastDrain[1] = "reject" /\ Len(lastDrain[2]) >= 2
  /\ \A q \in Range(lastDrain[2]) : rpc[q] = "rejected"
  /\ storAT = 0 /\ storRT = 0 /\ ~storUser
  /\ ~isRefreshing
  /\ \A r \in Req : rpc[r] \notin Handling

\* C6: after a refresh failure no refresh call is sent to the auth service
\* until a login (or register) has stored a refresh token again.
C6_NoRefreshAfterFailure ==
  [][failsSinceLogin > 0 => refreshCalls' = refreshCalls]_vars

\* C6 witness: a refresh call was sent and a refresh failed; since then a
\* second request was answered 401 and went through the failure path too.
C6_Witness == failsSinceLogin >= 2 /\ refreshCalls >= 1

\* New access token in storage together with the old refresh token, between
\* the refresh handler's two setItem calls.
TornCredentials ==
  \E h \in Req : rpc[h] = "h_setRT" /\ storAT = ntok[h] /\ storRT # ntok[h]

\* A credential attach, a session restore or a logout completes in this step.
OtherCredentialOp ==
  \/ \E r \in Req : rpc[r] = "attach" /\ rpc'[r] = "sent"
  \/ ~restored /\ restored'
  \/ logoutPc = "clear" /\ logoutPc' = "idle"

\* C7 (as claimed): no credential attach, session restore or logout runs
\* while the new access token is stored together with the old refresh token.
C7_AtomicReplace == [][~(TornCredentials /\ OtherCredentialOp)]_vars

\* C8 (as claimed): from the completion of logout() until the next login or
\* register stores credentials, neither token is in storage.
C8_ClearedAfterLogout == loggedOut => (storAT = 0 /\ storRT = 0)

\* ===================================================================
\* Properties of the chat component
\* ===================================================================
\* C9 (as claimed): an utterance submitted while the previous one is still
\* unanswered is not sent, whatever the entry point: at most one extraction
\* request is in flight.
C9_OneExtractionInFlight == Len(extractReqs) <= 1

C11_OneWayAfterConfirm ==
  [][plans >= 1 => (sends' = sends /\ plans' = plans)]_vars

\* C12 (as claimed): from the moment a confirm is accepted the extracted
\* parameters are not changed by any later event.
C12_FrozenAfterConfirm ==
  [][plans >= 1 => extractedParams' = extractedParams]_vars

\* C13 (as claimed): paramsComplete is true exactly when origin, destination,
\* departure date and passenger count are all present in extractedParams.
C13_CompleteIffRequired == paramsComplete <=> RequiredPresent(extractedParams)

\* C14 (as claimed): a successful extraction overwrites only the fields the
\* latest turn supplied; every field it did not supply keeps the value it had
\* before the reply.
C14_MonotonicMerge ==
  [][Len(extractReqs') < Len(extractReqs)
       => \A f \in Fields \ supplied' : extractedParams'[f] = extractedParams[f]
    ]_vars

\* C15 (as claimed): a failed extraction leaves the conversation as it was
\* before the utterance was submitted: the same turns, the same extracted
\* parameters and the same complete flag.
C15_FailureChangesNothing ==
  [][\A i \in 1..Len(extractReqs) :
       ExtractFailure(i)
         => /\ Len(messages') = snaps[i][1]
            /\ extractedParams' = snaps[i][2]
            /\ paramsComplete' = snaps[i][3]
    ]_vars

\* C16: an empty or whitespace-only utterance is refused before the chat
\* endpoint is reached: every request sent carries a non-blank text, and the
\* step that refuses an empty utterance sends nothing and leaves the turns,
\* the extracted parameters and complete as they were.
C16_EmptyRejected ==
  [][/\ \A i \in 1..Len(snaps') : snaps'[i][4] \notin {"", "blank"}
     /\ (emptyRejected' /\ ~emptyRejected)
          => UNCHANGED <<messages, extractedParams, paramsComplete,
                         extractReqs, sends>>
    ]_vars

\* C16 witness: an utterance was sent and, while its request is in flight, an
\* empty one (a blank voice transcript) has been refused.
C16_Witness ==
  /\ emptyRejected
  /\ sends >= 1
  /\ Len(extractReqs) = 1 /\ snaps[1][4] = "text"

\* ===================================================================
\* Properties of the result screens and the search store
\* ===================================================================
\* C17 (as claimed): sorted by AI score, the candidates are in descending
\* order of total utility; candidates of equal utility are in ascending
\* order of price; candidates equal in both keep the order in which the
\* search returned them.
C17_RankedByScore ==
  /\ flightSortBy = "score"
       => \A i, j \in 1..Len(FlightSortedResults) :
            i < j =>
              LET a == FlightSortedResults[i]
                  b == FlightSortedResults[j]
              IN \/ FlightUtility(a) > FlightUtility(b)
                 \/ FlightUtility(a) = FlightUtility(b) /\ a.price < b.price
                 \/ FlightUtility(a) = FlightUtility(b) /\ a.price = b.price
                      /\ a.id < b.id
  /\ hotelSortBy = "score"
       => \A i, j \in 1..Len(HotelSortedResults) :
            i < j =>
              LET a == HotelSortedResults[i]
                  b == HotelSortedResults[j]
              IN \/ HotelScore(a) > HotelScore(b)
                 \/ HotelScore(a) = HotelScore(b)
                      /\ a.price_per_night < b.price_per_night
                 \/ HotelScore(a) = HotelScore(b)
                      /\ a.price_per_night = b.price_per_night /\ a.id < b.id

\* C18: the recommendation is determined by totalUtility and
\* budgetConstraintMet alone, first match: a candidate that does not meet the
\* budget constraint is poor whatever its scores; otherwise a totalUtility of
\* at least 0.8 is excellent, at least 0.6 good, at least 0.4 fair, and
\* anything lower poor.
C18_TierFirstMatch ==
  evaluated =>
    LET u == evaluation.total_utility
        r == evaluation.recommendation
    IN /\ ~evaluation.budget_constraint_met => r = "poor"
       /\ evaluation.budget_constraint_met =>
            /\ u >= 8000 => r = "excellent"
            /\ (u >= 6000 /\ u < 8000) => r = "good"
            /\ (u >= 4000 /\ u < 6000) => r = "fair"
            /\ u < 4000 => r = "poor"

\* A candidate over budget whose totalUtility alone would make it excellent.
C18_Witness ==
  /\ evaluated
  /\ ~evaluation.budget_constraint_met
  /\ evaluation.total_utility >= 8000
  /\ evaluation.recommendation = "poor"

C20_ResultsForCurrentGoals ==
  /\ flightResults = <<>> \/ flightResultsFor = flightSearchParams
  /\ hotelResults = <<>> \/ hotelResultsFor = hotelSearchParams

\* ===================================================================
\* Properties of the request gateway, the stores and the socket service
\* ===================================================================
\* C21 (as claimed): a request that fails with a transient network error is
\* retried, and the failure reaches the caller only after the retries: a
\* request that fails on an attempt that is not a retry is not rejected.
C21_RetriedBeforeSurfaced ==
  [][\A r \in Req :
       (rpc[r] = "sent" /\ Valid(hdr[r]) /\ ~reissued[r] /\ ~retry[r])
         => rpc'[r] # "rejected"]_vars

\* C22: every retry loop of the build script makes at most MAX_RETRIES
\* attempts, makes no attempt after a successful one and returns 0 exactly
\* after a successful attempt, sleeps between consecutive failed attempts a
\* wait that doubles each time, returns 1 exactly when all MAX_RETRIES
\* attempts failed, and always returns.
C22_RetryLoops ==
  /\ [](\A p \in Loops :
          /\ Len(tries[p]) <= MAX_RETRIES
          /\ \A i \in 1..(Len(tries[p]) - 1) : ~tries[p][i]
          /\ status[p] = 0 <=> (tries[p] # <<>> /\ tries[p][Len(tries[p])])
          /\ status[p] = 0 => bpc[p] = "returned"
          /\ status[p] = 1 => /\ Len(tries[p]) = MAX_RETRIES
                              /\ \A i \in 1..MAX_RETRIES : ~tries[p][i]
          /\ (bpc[p] = "returned" /\ status[p] # 0) => status[p] = 1
          /\ Len(tries[p]) <= Len(slept[p]) + 1
          /\ Len(slept[p]) <= Len(tries[p])
          /\ \A i \in 1..Len(slept[p]) :
               slept[p][i] = IF i = 1 THEN InitialWait(p) ELSE 2 * slept[p][i - 1])
  /\ <>(\A p \in Loops : bpc[p] = "returned")

\* The build failed twice and succeeded at the third attempt, after waits of
\* 4 and 8 seconds, while one pull failed three times.
C22_Witness ==
  /\ tries["build"] = <<FALSE, FALSE, TRUE>>
  /\ slept["build"] = <<4, 8>>
  /\ status["build"] = 0
  /\ status["pull_node"] = 1
  /\ slept["pull_node"] = <<2, 4>>

C24_NoWaiterLeftWhenIdle ==
  ~isRefreshing =>
    /\ failedQueue = <<>>
    /\ \A r \in Req : rpc[r] # "queued"

\* C25 (as claimed): whenever the auth store says isAuthenticated, an access
\* token and a refresh token are in storage.
C25_AuthenticatedHasTokens ==
  isAuthenticated => (storAT # 0 /\ storRT # 0)

\* C26 (as claimed): in the web notification store unreadCount is the number
\* of stored notifications with read = false, and is never negative, also
\* when a notification id was added more than once.
C26_WebUnreadCountExact ==
  /\ webUnreadCount = Unread(webNotifications)
  /\ webUnreadCount >= 0

\* C27 (as claimed): in the mobile notification store unreadCount is the
\* number of stored notifications with read = false; markAsRead of an id that
\* is already read, or unknown, leaves unreadCount as it was.
C27_MobUnreadCountExact ==
  [][/\ mobUnreadCount' = Unread(mobNotifications')
     /\ \A id \in CalledIds :
          (MobMarkAsRead(id) /\ ~WasUnread(mobNotifications, id))
            => mobUnreadCount' = mobUnreadCount]_vars

\* C28 (as claimed): when searches overlap, once every response has arrived
\* (and the last one was no failure) the stored results are those of the
\* search parameters submitted last, and the searching flag is false only
\* when no search is in flight.
C28_LatestSearchWins ==
  /\ (flightSearches = {} /\ ~flightError /\ flightSearchParams # 0)
       => flightResultsFor = flightSearchParams
  /\ ~isSearchingFlights => flightSearches = {}
  /\ (hotelSearches = {} /\ ~hotelError /\ hotelSearchParams # 0)
       => hotelResultsFor = hotelSearchParams
  /\ ~isSearchingHotels => hotelSearches = {}

\* C29 (as claimed): an incoming notification, price update, booking update
\* or chat message is delivered exactly once to each callback registered for
\* it.
C29_DeliveredOnce ==
  [][\A s \in Sockets : \A e \in Events \cap NamedEvents :
       ServerEvent(s, e) => \A cb \in listeners[e] : deliveries'[cb] = 1]_vars

\* C30 (as claimed): every socket the service created is the one it holds or
\* has been disconnected.
C30_OneLiveSocket ==
  \A s \in Sockets : sock[s] \in Live => socket = s

====
